---- MODULE Spec2Model ----
(***************************************************************************)
(* Model of code/conjugate_gradient.py: the grid-transfer operators        *)
(* create_coarsening_matrix / create_prolongation_matrix and the solver    *)
(* conjugate_gradient_with_ritz.                                           *)
(*                                                                         *)
(* Floating-point values are modelled as exact rationals <<n, d>> (d > 0,  *)
(* lowest terms) extended with the IEEE special values the arithmetic of   *)
(* the code can produce: NaN = <<0,0>>, +Inf = <<1,0>>, -Inf = <<-1,0>>.   *)
(* Rounding is not modelled; every zero is +0.                             *)
(***************************************************************************)
EXTENDS Integers, Sequences, FiniteSets, TLC

VARIABLES op, pc, err, result,
          h, size_fine, size_coarse, coarsening_matrix, cols,
          A, b, max_iter, tol, n, x, r, p, r_new, ritz_values, k, iterations

vars == <<op, pc, err, result,
          h, size_fine, size_coarse, coarsening_matrix, cols,
          A, b, max_iter, tol, n, x, r, p, r_new, ritz_values, k, iterations>>

gridVars == <<h, size_fine, size_coarse, coarsening_matrix, cols>>
cgVars == <<A, b, max_iter, tol, n, x, r, p, r_new, ritz_values, k, iterations>>

(***************************************************************************)
(* Bounds of the model.                                                    *)
(***************************************************************************)
MaxNegH == 2
MaxH == 8
MaxN == 3
MaxIter == 3

HValues == (-MaxNegH)..MaxH
DiagValues == {0, 1, 2}
RhsValues == {0, 1}

(***************************************************************************)
(* Extended rational arithmetic (the float64 values of the program).       *)
(***************************************************************************)
Abs(i) == IF i < 0 THEN -i ELSE i
Sgn(i) == IF i < 0 THEN -1 ELSE IF i > 0 THEN 1 ELSE 0

RECURSIVE Gcd(_, _)
Gcd(i, j) == IF j = 0 THEN i ELSE Gcd(j, i % j)

Rat(i, j) ==
    IF j = 0 THEN <<Sgn(i), 0>>
    ELSE LET g == Gcd(Abs(i), Abs(j))
         IN  <<(Sgn(j) * i) \div g, Abs(j) \div g>>

Float(i) == <<i, 1>>
NaN == <<0, 0>>
Zero == <<0, 1>>
IsNaN(a) == a = NaN
IsInf(a) == a[2] = 0 /\ a[1] # 0
IsFinite(a) == a[2] # 0

Neg(a) == <<-a[1], a[2]>>

Add(a, c) ==
    IF IsNaN(a) \/ IsNaN(c) THEN NaN
    ELSE IF IsInf(a) THEN (IF IsInf(c) /\ c # a THEN NaN ELSE a)
    ELSE IF IsInf(c) THEN c
    ELSE LET g == Gcd(a[2], c[2])
         IN  Rat(a[1] * (c[2] \div g) + c[1] * (a[2] \div g),
                 (a[2] \div g) * c[2])

Sub(a, c) == Add(a, Neg(c))

Mul(a, c) ==
    IF IsNaN(a) \/ IsNaN(c) THEN NaN
    ELSE IF IsInf(a) \/ IsInf(c)
         THEN <<Sgn(a[1]) * Sgn(c[1]), 0>>
    ELSE LET g1 == Gcd(Abs(a[1]), c[2])
             g2 == Gcd(Abs(c[1]), a[2])
         IN  <<(a[1] \div g1) * (c[1] \div g2),
               (a[2] \div g2) * (c[2] \div g1)>>

\* Variant of Div that guards the zero denominator and yields 0 instead.
Div_ZeroGuard(a, c) ==
    IF IsNaN(a) \/ IsNaN(c) THEN NaN
    ELSE IF IsInf(a)
         THEN (IF IsInf(c) THEN NaN
               ELSE <<a[1] * (IF c[1] < 0 THEN -1 ELSE 1), 0>>)
    ELSE IF IsInf(c) THEN Zero
    ELSE IF c[1] = 0 THEN Zero
    ELSE Mul(a, <<Sgn(c[1]) * c[2], Abs(c[1])>>)

\* numpy float64 true division: x/0 is +-Inf, 0/0 is NaN, no exception.
Div(a, c) ==
    IF IsNaN(a) \/ IsNaN(c) THEN NaN
    ELSE IF IsInf(a)
         THEN (IF IsInf(c) THEN NaN
               ELSE <<a[1] * (IF c[1] < 0 THEN -1 ELSE 1), 0>>)
    ELSE IF IsInf(c) THEN Zero
    ELSE IF c[1] = 0 THEN <<Sgn(a[1]), 0>>
    ELSE Mul(a, <<Sgn(c[1]) * c[2], Abs(c[1])>>)

Less(a, c) ==
    IF IsNaN(a) \/ IsNaN(c) THEN FALSE
    ELSE IF a = c THEN FALSE
    ELSE IF IsInf(a) THEN a[1] < 0
    ELSE IF IsInf(c) THEN c[1] > 0
    ELSE LET g == Gcd(a[2], c[2])
         IN  a[1] * (c[2] \div g) < c[1] * (a[2] \div g)

(***************************************************************************)
(* numpy helpers used by the grid-transfer operators.                      *)
(* A matrix is [nrows, ncols, e] with e indexed by <<row, col>>, 0-based.  *)
(***************************************************************************)
PyFloorDiv2(i) == i \div 2

\* np.arange(start, stop, step), step > 0, as a 1-based sequence of its values
np_arange(start, stop, step) ==
    LET len == IF stop <= start THEN 0 ELSE (stop - start + step - 1) \div step
    IN  [i \in 1..len |-> start + step * (i - 1)]

np_zeros(nr, nc) ==
    [nrows |-> nr, ncols |-> nc,
     e |-> [ij \in (0..(nr - 1)) \X (0..(nc - 1)) |-> Zero]]

\* Length of the broadcast of two 1-D index arrays; -1 when they do not broadcast
BroadcastLen(lr, lc) ==
    IF lr = lc THEN lr
    ELSE IF lr = 1 THEN lc
    ELSE IF lc = 1 THEN lr
    ELSE -1

IndexAt(s, i) == IF Len(s) = 1 THEN s[1] ELSE s[i]

InBounds(i, dim) == -dim <= i /\ i < dim
WrapIndex(i, dim) == IF i < 0 THEN i + dim ELSE i

\* M[rowIdx, colIdx] = v with two integer index arrays (advanced indexing):
\* the arrays are broadcast against each other and every pair is written;
\* a shape mismatch or an out-of-range index raises IndexError.
FancyAssign(M, rowIdx, colIdx, v) ==
    LET len == BroadcastLen(Len(rowIdx), Len(colIdx))
    IN  IF len = -1 THEN [err |-> "IndexError", M |-> M]
        ELSE IF \E i \in 1..len :
                   \/ ~InBounds(IndexAt(rowIdx, i), M.nrows)
                   \/ ~InBounds(IndexAt(colIdx, i), M.ncols)
             THEN [err |-> "IndexError", M |-> M]
        ELSE LET written == {<<WrapIndex(IndexAt(rowIdx, i), M.nrows),
                               WrapIndex(IndexAt(colIdx, i), M.ncols)>> :
                             i \in 1..len}
             IN  [err |-> "none",
                  M |-> [M EXCEPT !.e = [ij \in DOMAIN M.e |->
                                   IF ij \in written THEN v ELSE M.e[ij]]]]

\* Variant of ScaleMatrix that drops the factor.
ScaleMatrix_NoScale(M, c) == M

ScaleMatrix(M, c) == [M EXCEPT !.e = [ij \in DOMAIN M.e |-> Mul(c, M.e[ij])]]
\* Variant of DivMatrix that returns the unnormalised weights.
DivMatrix_NoDivide(M, c) == M

DivMatrix(M, c) == [M EXCEPT !.e = [ij \in DOMAIN M.e |-> Div(M.e[ij], c)]]

np_transpose(M) ==
    [nrows |-> M.ncols, ncols |-> M.nrows,
     e |-> [ij \in (0..(M.ncols - 1)) \X (0..(M.nrows - 1)) |->
              M.e[<<ij[2], ij[1]>>]]]

NoMatrix == [nrows |-> 0, ncols |-> 0, e |-> <<>>]

(***************************************************************************)
(* Vector helpers used by the solver.  A vector is a 1-based sequence of   *)
(* float values; a square matrix is a sequence of rows.  The variable       *)
(* iterations is a history variable: the number of loop bodies executed.   *)
(***************************************************************************)
np_zeros_vec(len) == [i \in 1..len |-> Zero]

\* np.diag of a 2-D array: the 1-D array of its main diagonal
np_diag(M) == [i \in 1..Len(M) |-> M[i][i]]

VecMul(u, v) == [i \in 1..Len(u) |-> Mul(u[i], v[i])]
VecAdd(u, v) == [i \in 1..Len(u) |-> Add(u[i], v[i])]
VecSub(u, v) == [i \in 1..Len(u) |-> Sub(u[i], v[i])]
VecScale(a, v) == [i \in 1..Len(v) |-> Mul(a, v[i])]

RECURSIVE DotUpTo(_, _, _)
DotUpTo(u, v, i) ==
    IF i = 0 THEN Zero ELSE Add(DotUpTo(u, v, i - 1), Mul(u[i], v[i]))

np_dot(u, v) == DotUpTo(u, v, Len(u))

\* sqrt(s) < t, decided on the squares (sqrt is monotone, sqrt(NaN) = NaN)
SqrtLess(s, t) ==
    IF IsNaN(s) \/ IsNaN(t) THEN FALSE
    ELSE IF ~Less(Zero, t) THEN FALSE
    ELSE Less(s, Mul(t, t))

\* np.linalg.norm(v) < t
NormLess(v, t) == SqrtLess(np_dot(v, v), t)

TolValues == {Zero, Rat(1, 10), Float(1)}

DiagMatrix(dv) ==
    [i \in 1..Len(dv) |-> [j \in 1..Len(dv) |->
        IF i = j THEN Float(dv[i]) ELSE Zero]]

FloatVec(iv) == [i \in 1..Len(iv) |-> Float(iv[i])]

IntVectors(S, len) == [1..len -> S]

(***************************************************************************)
(* Initial state: no call in progress.                                     *)
(***************************************************************************)
Init ==
    /\ op = "none"
    /\ pc = "idle"
    /\ err = "none"
    /\ result = NoMatrix
    /\ h = 0
    /\ size_fine = 0
    /\ size_coarse = 0
    /\ coarsening_matrix = NoMatrix
    /\ cols = <<>>
    /\ A = <<>>
    /\ b = <<>>
    /\ max_iter = 0
    /\ tol = Zero
    /\ n = 0
    /\ x = <<>>
    /\ r = <<>>
    /\ p = <<>>
    /\ r_new = <<>>
    /\ ritz_values = <<>>
    /\ k = 0
    /\ iterations = 0

(***************************************************************************)
(* create_coarsening_matrix(h) and create_prolongation_matrix(h)           *)
(***************************************************************************)
CallCoarsening ==
    /\ pc = "idle"
    /\ op' = "coarsen"
    /\ h' \in HValues
    /\ pc' = "check"
    /\ UNCHANGED <<err, result, size_fine, size_coarse, coarsening_matrix,
                   cols, cgVars>>

\* create_prolongation_matrix enters create_coarsening_matrix with the same h
CallProlongation ==
    /\ pc = "idle"
    /\ op' = "prolong"
    /\ h' \in HValues
    /\ pc' = "check"
    /\ UNCHANGED <<err, result, size_fine, size_coarse, coarsening_matrix,
                   cols, cgVars>>

\* Variant of GridSizeInvalid without the parity check.
GridSizeInvalid_Never(hh) == FALSE

\* if h % 2 != 0: raise ValueError
GridSizeInvalid(hh) == hh % 2 # 0

CheckGridSize ==
    /\ pc = "check"
    /\ IF GridSizeInvalid(h)
       THEN /\ err' = "ValueError: h should be even"
            /\ pc' = "raised"
            /\ UNCHANGED <<size_fine, size_coarse>>
       ELSE /\ size_fine' = h + 1
            /\ size_coarse' = PyFloorDiv2(h + 1)
            /\ pc' = "zeros"
            /\ UNCHANGED err
    /\ UNCHANGED <<op, result, h, coarsening_matrix, cols, cgVars>>

\* coarsening_matrix = np.zeros((size_coarse, size_fine))
AllocateZeros ==
    /\ pc = "zeros"
    /\ IF size_coarse < 0 \/ size_fine < 0
       THEN /\ err' = "ValueError: negative dimensions"
            /\ pc' = "raised"
            /\ UNCHANGED coarsening_matrix
       ELSE /\ coarsening_matrix' = np_zeros(size_coarse, size_fine)
            /\ pc' = "fill_diag"
            /\ UNCHANGED err
    /\ UNCHANGED <<op, result, h, size_fine, size_coarse, cols, cgVars>>

\* np.arange(size_coarse)
RowIndex == np_arange(0, size_coarse, 1)

DiagCols == np_arange(0, size_fine - 2, 2)
\* Variant of UpperCols that starts at column 0.
UpperCols_FromZero == np_arange(0, size_fine - 2, 2)

UpperCols == np_arange(1, size_fine - 1, 2)

\* Variant of SecondUpperCols that repeats the columns of the upper diagonal.
SecondUpperCols_Shifted == np_arange(1, size_fine - 1, 2)

SecondUpperCols == np_arange(2, size_fine, 2)

\* coarsening_matrix[np.arange(size_coarse), np.arange(0, size_fine - 2, 2)] = 1
FillDiagonal ==
    /\ pc = "fill_diag"
    /\ LET res == FancyAssign(coarsening_matrix, RowIndex, DiagCols, Float(1))
       IN  /\ cols' = DiagCols
           /\ coarsening_matrix' = res.M
           /\ err' = res.err
           /\ pc' = IF res.err = "none" THEN "fill_upper" ELSE "raised"
    /\ UNCHANGED <<op, result, h, size_fine, size_coarse, cgVars>>

\* coarsening_matrix[np.arange(size_coarse), np.arange(1, size_fine - 1, 2)] = 2
FillUpper ==
    /\ pc = "fill_upper"
    /\ LET res == FancyAssign(coarsening_matrix, RowIndex, UpperCols, Float(2))
       IN  /\ cols' = UpperCols
           /\ coarsening_matrix' = res.M
           /\ err' = res.err
           /\ pc' = IF res.err = "none" THEN "fill_second" ELSE "raised"
    /\ UNCHANGED <<op, result, h, size_fine, size_coarse, cgVars>>

\* coarsening_matrix[np.arange(size_coarse), np.arange(2, size_fine, 2)] = 1
FillSecondUpper ==
    /\ pc = "fill_second"
    /\ LET res == FancyAssign(coarsening_matrix, RowIndex, SecondUpperCols,
                              Float(1))
       IN  /\ cols' = SecondUpperCols
           /\ coarsening_matrix' = res.M
           /\ err' = res.err
           /\ pc' = IF res.err = "none" THEN "return" ELSE "raised"
    /\ UNCHANGED <<op, result, h, size_fine, size_coarse, cgVars>>

\* return coarsening_matrix/4
ReturnCoarsening ==
    /\ pc = "return"
    /\ result' = DivMatrix(coarsening_matrix, Float(4))
    /\ pc' = IF op = "prolong" THEN "prolong" ELSE "done"
    /\ UNCHANGED <<op, err, gridVars, cgVars>>

\* return 2 * np.transpose(create_coarsening_matrix(h))
ReturnProlongation ==
    /\ pc = "prolong"
    /\ result' = ScaleMatrix(np_transpose(result), Float(2))
    /\ pc' = "done"
    /\ UNCHANGED <<op, err, gridVars, cgVars>>

(***************************************************************************)
(* conjugate_gradient_with_ritz(A, b, max_iter, tol)                       *)
(***************************************************************************)
CallCG ==
    /\ pc = "idle"
    /\ op' = "cg"
    /\ \E len \in 1..MaxN :
         \E dv \in IntVectors(DiagValues, len), bv \in IntVectors(RhsValues, len) :
           /\ A' = DiagMatrix(dv)
           /\ b' = FloatVec(bv)
    /\ max_iter' \in 0..MaxIter
    /\ tol' \in TolValues
    /\ n' = Len(b')
    /\ x' = np_zeros_vec(n')
    /\ r' = VecSub(b', VecMul(np_diag(A'), x'))
    /\ p' = r'
    /\ r_new' = <<>>
    /\ ritz_values' = <<>>
    /\ k' = 0
    /\ iterations' = 0
    /\ pc' = "loop"
    /\ UNCHANGED <<err, result, gridVars>>

\* Variant of ResidualUpdate with the sign of the correction flipped.
ResidualUpdate_SignError(rr, a, Apv) == VecAdd(rr, VecScale(a, Apv))

\* r_new = r - alpha * Ap
ResidualUpdate(rr, a, Apv) == VecSub(rr, VecScale(a, Apv))

\* Variant of Converged that also stops when the norm equals tol.
Converged_LessEq(rn, t) ==
    \/ NormLess(rn, t)
    \/ /\ IsFinite(t)
       /\ ~Less(t, Zero)
       /\ np_dot(rn, rn) = Mul(t, t)

\* if np.linalg.norm(r_new) < tol: break
Converged(rn, t) == NormLess(rn, t)

\* Variant of LoopContinues that runs one iteration more.
LoopContinues_OffByOne(kk, mi) == kk <= mi

\* for k in range(max_iter)
LoopContinues(kk, mi) == kk < mi

\* Ap = np.diag(A) * p
Ap == VecMul(np_diag(A), p)

\* alpha = np.dot(r, r) / np.dot(p, Ap)
alpha == Div(np_dot(r, r), np_dot(p, Ap))

\* ritz_value = np.dot(r_new, r_new) / np.dot(r, r)
ritz_value(rn, rr) == Div(np_dot(rn, rn), np_dot(rr, rr))

\* beta = np.dot(r_new, r_new) / np.dot(r, r)
beta(rn, rr) == Div(np_dot(rn, rn), np_dot(rr, rr))

\* One execution of the loop body; r_new' is the r_new of this iteration.
CGIterate ==
    /\ pc = "loop"
    /\ LoopContinues(k, max_iter)
    /\ x' = VecAdd(x, VecScale(alpha, p))
    /\ r_new' = ResidualUpdate(r, alpha, Ap)
    /\ ritz_values' = Append(ritz_values, ritz_value(r_new', r))
    /\ iterations' = iterations + 1
    /\ IF Converged(r_new', tol)
       THEN /\ pc' = "break"
            /\ UNCHANGED <<p, r, k>>
       ELSE /\ p' = VecAdd(r_new', VecScale(beta(r_new', r), p))
            /\ r' = r_new'
            /\ k' = k + 1
            /\ pc' = "loop"
    /\ UNCHANGED <<op, err, result, gridVars, A, b, max_iter, tol, n>>

\* return x, ritz_values
CGReturn ==
    /\ \/ pc = "break"
       \/ pc = "loop" /\ ~LoopContinues(k, max_iter)
    /\ result' = [x |-> x, ritz_values |-> ritz_values]
    /\ pc' = "done"
    /\ UNCHANGED <<op, err, gridVars, cgVars>>

Next ==
    \/ CallCoarsening
    \/ CallProlongation
    \/ CheckGridSize
    \/ AllocateZeros
    \/ FillDiagonal
    \/ FillUpper
    \/ FillSecondUpper
    \/ ReturnCoarsening
    \/ ReturnProlongation
    \/ CallCG
    \/ CGIterate
    \/ CGReturn

Spec == Init /\ [][Next]_vars

TypeOK ==
    /\ op \in {"none", "coarsen", "prolong", "cg"}
    /\ pc \in {"idle", "check", "zeros", "fill_diag", "fill_upper",
               "fill_second", "return", "prolong", "raised", "loop",
               "break", "done"}
    /\ k \in 0..MaxIter
    /\ iterations \in 0..MaxIter
    /\ err \in {"none", "ValueError: h should be even",
               "ValueError: negative dimensions", "IndexError"}
    /\ Len(ritz_values) <= MaxIter

(***************************************************************************)
(* Properties of the grid-transfer operators.                              *)
(***************************************************************************)
InvalidGridSizeError == "ValueError: h should be even"

CoarseningReturned == op = "coarsen" /\ pc = "done"
ProlongationReturned == op = "prolong" /\ pc = "done"
InGridCall == op \in {"coarsen", "prolong"}

RECURSIVE RowSumUpTo(_, _, _)
RowSumUpTo(M, i, j) ==
    IF j < 0 THEN Zero ELSE Add(RowSumUpTo(M, i, j - 1), M.e[<<i, j>>])

RowSum(M, i) == RowSumUpTo(M, i, M.ncols - 1)

\* C1: for every even h >= 2 the matrix returned by create_coarsening_matrix
\* has (h+1)//2 rows and h+1 columns, every row sums to 1, and the
\* unnormalised weights of every row sum to 4.
C1_ShapeAndRowSums ==
    (CoarseningReturned /\ h >= 2) =>
        /\ result.nrows = (h + 1) \div 2
        /\ result.ncols = h + 1
        /\ DOMAIN result.e = (0..(((h + 1) \div 2) - 1)) \X (0..h)
        /\ \A i \in 0..(result.nrows - 1) :
             /\ RowSum(result, i) = Float(1)
             /\ RowSum(coarsening_matrix, i) = Float(4)

C1_Witness ==
    /\ CoarseningReturned
    /\ h = 8
    /\ result.nrows = 4
    /\ result.ncols = 9
    /\ RowSum(result, 3) = Float(1)

Stencil(i, j) ==
    IF j = 2 * i \/ j = 2 * i + 2 THEN Rat(1, 4)
    ELSE IF j = 2 * i + 1 THEN Rat(2, 4)
    ELSE Zero

Coarsening8 ==
    << <<1, 2, 1, 0, 0, 0, 0, 0, 0>>,
       <<0, 0, 1, 2, 1, 0, 0, 0, 0>>,
       <<0, 0, 0, 0, 1, 2, 1, 0, 0>>,
       <<0, 0, 0, 0, 0, 0, 1, 2, 1>> >>

\* C2: for every even h >= 2 and every coarse row i the returned matrix has
\* 1/4 at column 2i, 2/4 at column 2i+1, 1/4 at column 2i+2 and 0 elsewhere;
\* for h = 8 it is the 4x9 matrix Coarsening8 / 4.
C2_StencilEntries ==
    (CoarseningReturned /\ h >= 2) =>
        /\ \A i \in 0..(((h + 1) \div 2) - 1) : \A j \in 0..h :
             result.e[<<i, j>>] = Stencil(i, j)
        /\ h = 8 =>
             \A i \in 0..3 : \A j \in 0..8 :
               result.e[<<i, j>>] = Div(Float(Coarsening8[i + 1][j + 1]), Float(4))

C2_Witness ==
    /\ CoarseningReturned
    /\ h = 8
    /\ result.e[<<3, 6>>] = Rat(1, 4)
    /\ result.e[<<3, 7>>] = Rat(1, 2)
    /\ result.e[<<3, 8>>] = Rat(1, 4)

\* C3: for every even h >= 2 the matrix returned by create_prolongation_matrix
\* is (h+1) x (h+1)//2 and its entry [j][i] is 2 times the entry [i][j] of the
\* coarsening matrix (the unnormalised weights divided by 4).
C3_ProlongationIsTwiceTranspose ==
    (ProlongationReturned /\ h >= 2) =>
        /\ result.nrows = h + 1
        /\ result.ncols = (h + 1) \div 2
        /\ DOMAIN result.e = (0..h) \X (0..(((h + 1) \div 2) - 1))
        /\ \A j \in 0..h : \A i \in 0..(((h + 1) \div 2) - 1) :
             /\ result.e[<<j, i>>] =
                  Add(Div(coarsening_matrix.e[<<i, j>>], Float(4)),
                      Div(coarsening_matrix.e[<<i, j>>], Float(4)))
             /\ result.e[<<j, i>>] = Add(Stencil(i, j), Stencil(i, j))

C3_Witness ==
    /\ ProlongationReturned
    /\ h = 8
    /\ result.nrows = 9
    /\ result.e[<<7, 3>>] = Float(1)
    /\ result.e[<<8, 3>>] = Rat(1, 2)

\* C4: for every odd h both operations fail with the invalid-grid-size error
\* and return no matrix; for every even h >= 2 neither raises that error.
C4_OddGridSizeRejected ==
    /\ (InGridCall /\ h % 2 = 1 /\ pc # "check") =>
         /\ pc = "raised"
         /\ err = InvalidGridSizeError
         /\ result = NoMatrix
         /\ coarsening_matrix = NoMatrix
    /\ (InGridCall /\ h % 2 = 0 /\ h >= 2) =>
         /\ err # InvalidGridSizeError
         /\ pc # "raised"

C4_Witness ==
    /\ op = "prolong"
    /\ h = 7
    /\ pc = "raised"
    /\ err = InvalidGridSizeError

\* The column 2i+2 of the last coarse row i = size_coarse-1 exceeds size_fine-1
LastRowOverrun(hh) ==
    /\ PyFloorDiv2(hh + 1) >= 1
    /\ 2 * (PyFloorDiv2(hh + 1) - 1) + 2 > (hh + 1) - 1

ColsInRange == \A c \in 1..Len(cols) : cols[c] >= 0 /\ cols[c] <= h

\* C9 as stated: no write falls outside columns 0..h, and whenever the column
\* 2i+2 of the last coarse row exceeds size_fine-1 the call raises no error
\* and returns the matrix with that one assignment skipped.
C9_SkipsOutOfRangeColumn ==
    /\ InGridCall => ColsInRange
    /\ (InGridCall /\ LastRowOverrun(h) /\ pc # "check") =>
         /\ err = "none"
         /\ pc # "raised"

\* C9 amended: no write falls outside columns 0..h.  For even h >= 0 no error
\* is raised and column 2i+2 of the last coarse row is size_fine-1 = h, in
\* range, and is written like the other two weights of every row (nothing is
\* skipped, wrapped or clamped).  Column 2i+2 of the last coarse row exceeds
\* size_fine-1 only for odd h, and then the invalid-grid-size error is raised
\* before any entry is written.
C9_NoColumnOutOfRangeNothingSkipped ==
    /\ InGridCall => ColsInRange
    /\ (InGridCall /\ h % 2 = 0 /\ h >= 0) =>
         /\ err = "none"
         /\ ~LastRowOverrun(h)
         /\ pc \in {"fill_upper", "fill_second", "return", "prolong", "done"} =>
              cols = [c \in 1..size_coarse |->
                        IF pc = "fill_upper" THEN 2 * (c - 1)
                        ELSE IF pc = "fill_second" THEN 2 * (c - 1) + 1
                        ELSE 2 * (c - 1) + 2]
         /\ pc \in {"return", "prolong", "done"} =>
              \A i \in 0..(size_coarse - 1) : \A j \in 0..h :
                coarsening_matrix.e[<<i, j>>] =
                  IF j = 2 * i \/ j = 2 * i + 2 THEN Float(1)
                  ELSE IF j = 2 * i + 1 THEN Float(2)
                  ELSE Zero
    /\ (InGridCall /\ LastRowOverrun(h) /\ pc # "check") =>
         /\ h % 2 = 1
         /\ err = InvalidGridSizeError
         /\ pc = "raised"
         /\ coarsening_matrix = NoMatrix
         /\ cols = <<>>

C9_Witness ==
    /\ op = "coarsen"
    /\ pc = "return"
    /\ h = 2
    /\ size_coarse = 1
    /\ cols = <<2>>
    /\ coarsening_matrix.e[<<0, 2>>] = Float(1)

(***************************************************************************)
(* Properties of conjugate_gradient_with_ritz.                             *)
(***************************************************************************)
CGReturned == op = "cg" /\ pc = "done"

\* norm(r_new) < tol, stated on the squares
ResidualBelowTol ==
    /\ Less(Zero, tol)
    /\ Less(np_dot(r_new, r_new), Mul(tol, tol))

\* C5: with max_iter >= 1 the Ritz sequence has one entry per loop iteration
\* executed, the breaking iteration included; the returned sequence has
\* between 1 and max_iter entries, and exactly one when max_iter = 1.
C5_OneRitzValuePerIteration ==
    (op = "cg" /\ max_iter >= 1) =>
        /\ Len(ritz_values) = iterations
        /\ pc = "break" => Len(ritz_values) = k + 1
        /\ pc = "done" =>
             /\ result.ritz_values = ritz_values
             /\ Len(result.ritz_values) >= 1
             /\ Len(result.ritz_values) <= max_iter
             /\ max_iter = 1 => Len(result.ritz_values) = 1

C5_Witness ==
    /\ CGReturned
    /\ max_iter = 3
    /\ iterations = 2
    /\ Len(result.ritz_values) = 2
    /\ ResidualBelowTol

\* C6: when the call returns with fewer than max_iter Ritz values, the norm of
\* the residual r_new of the last executed iteration is strictly below tol.
C6_EarlyExitMeansBelowTol ==
    (CGReturned /\ Len(result.ritz_values) < max_iter) =>
        /\ iterations >= 1
        /\ ResidualBelowTol

C6_Witness ==
    /\ CGReturned
    /\ Len(result.ritz_values) = 1
    /\ max_iter = 3
    /\ np_dot(r_new, r_new) # Zero
    /\ ResidualBelowTol

NeverBelowTol == iterations = 0 \/ ~ResidualBelowTol

\* C7: the call executes at most max_iter loop iterations: every step of the
\* loop either executes one more iteration or returns, the iteration count
\* never exceeds max_iter, and once it reaches max_iter only the return is
\* left.  When the residual norm never dropped below tol the call returns
\* without error, with x and a Ritz sequence of length exactly max_iter.
C7_TerminatesWithinMaxIter ==
    /\ [](op = "cg" =>
            /\ iterations <= max_iter
            /\ err = "none"
            /\ pc \in {"loop", "break", "done"}
            /\ (pc = "loop" /\ iterations = max_iter) => ~LoopContinues(k, max_iter)
            /\ (pc = "done" /\ NeverBelowTol) =>
                 /\ iterations = max_iter
                 /\ Len(result.ritz_values) = max_iter
                 /\ result.x = x)
    /\ [][(op = "cg" /\ pc \in {"loop", "break"}) =>
            \/ pc' \in {"loop", "break"} /\ iterations' = iterations + 1
            \/ pc' = "done" /\ iterations' = iterations]_vars

C7_Witness ==
    /\ CGReturned
    /\ max_iter = 1
    /\ iterations = 1
    /\ Less(Zero, tol)
    /\ ~ResidualBelowTol
    /\ \A i \in 1..n : Less(Zero, A[i][i])
    /\ IsFinite(result.ritz_values[1])
    /\ result.ritz_values[1] # Zero

IsIdentity(M) ==
    \A i \in 1..Len(M) : \A j \in 1..Len(M) :
        M[i][j] = IF i = j THEN Float(1) ELSE Zero

Ones(len) == [i \in 1..len |-> Float(1)]

ZeroRhsCall ==
    /\ op = "cg"
    /\ n >= 1
    /\ b = np_zeros_vec(n)
    /\ \A i \in 1..n : Less(Zero, A[i][i])
    /\ max_iter >= 1
    /\ Less(Zero, tol)

\* C10: with rhs = 0, positive diagonal entries, max_iter >= 1 and tol > 0 no
\* error is raised and the loop never breaks: x, r_new and every Ritz value
\* are NaN, and the call returns after exactly max_iter iterations with
\* max_iter Ritz values.
C10_ZeroRhsPropagatesNaN ==
    ZeroRhsCall =>
        /\ err = "none"
        /\ pc \notin {"break", "raised"}
        /\ \A i \in 1..Len(ritz_values) : IsNaN(ritz_values[i])
        /\ iterations >= 1 =>
             /\ \A i \in 1..n : IsNaN(x[i]) /\ IsNaN(r_new[i])
             /\ ~ResidualBelowTol
        /\ pc = "done" =>
             /\ iterations = max_iter
             /\ Len(result.ritz_values) = max_iter
             /\ \A i \in 1..max_iter : ~IsFinite(result.ritz_values[i])
             /\ \A i \in 1..n : IsNaN(result.x[i])

C10_Witness ==
    /\ ZeroRhsCall
    /\ pc = "done"
    /\ n = 2
    /\ max_iter = 3
    /\ result.ritz_values = <<NaN, NaN, NaN>>
====
